---- MODULE Spec2Model ----
(***************************************************************************)
(* Version manifest state machine of dkproxy: version-manager.py (the      *)
(* Version Manager commands) and migrate-to-versioned.py (the migration    *)
(* wizard).  Every invocation is one process: it loads the persisted       *)
(* manifest, runs one command to completion and exits, so every command is *)
(* one atomic action whose inputs (arguments, pull outcomes, operator      *)
(* answers, registry answers) are drawn with \E.                           *)
(*                                                                         *)
(* Time is the number of recordings: deployed_at of a recording of a       *)
(* service is one more than that of its newest history entry.  Left out:   *)
(* the image_digest and notes fields of a service record, the "Generated"  *)
(* line of versions.env, an interrupt from the keyboard and the commands   *)
(* history, check-updates and pull-from-manifest.  Inside a command a pull *)
(* is one boolean outcome; docker_pull_with_retry and the tag resolvers    *)
(* are functions, applied to their inputs in specifications of their own.  *)
(***************************************************************************)
EXTENDS Integers, Sequences, FiniteSets, TLC

VARIABLES
    manifest,   \* the in-memory manifest of the process that ran last (self.manifest)
    file,       \* version-manifest.yaml: <<>> when absent, else <<content>>
    backups,    \* .version-backups: <<>> when empty, else <<content of the newest copy>>
    env,        \* versions.env: <<>> when absent, else <<content>>
    last        \* the last process: its command line, the services whose image it
                \* tried to pull and those it pulled, its outcome, the number of
                \* backup copies it wrote, the make targets it ran, what the
                \* registry answered to its queries and its exit code; for
                \* the wizard also the running images it detected and the
                \* prompts it showed with the responses to them

vars == <<manifest, file, backups, env, last>>

----------------------------------------------------------------------------
(* Constants of the program *)

SERVICES == <<"outpost", "cmd_exec", "vault">>
ServiceSet == {SERVICES[i] : i \in 1..Len(SERVICES)}
ECR_SERVICES == {"outpost", "cmd_exec"}
HISTORY_LIMIT == 5

(* Bounds of the model *)
MaxOps == 2     \* recordings per run when all three services are served
MaxSeq == 3     \* recordings per run when the commands name one service
MaxRec == 7     \* recordings per run when one service is recorded again and again
MaxMig == 6     \* ticks of the clock per run when the wizard runs
MaxSaved == 2   \* recordings in the manifest files that load is tried on
MaxPulls == 3   \* docker pulls whose result is fixed when an image is pulled
MaxImages == 2  \* records in the answer of the registry to a resolver
MaxPin == 5     \* recordings per run when outpost is pinned and rolled back

Tags == {"latest", "1.42", "1.43"}
NoTag == "none"                         \* Python's None where a tag is expected
SemanticTags == Tags \ {"latest"}

----------------------------------------------------------------------------
(* The manifest document *)

create_default_manifest ==
    [services |-> <<>>, history |-> <<>>, custom_overrides |-> <<>>]

\* a manifest file that holds no YAML document, and one that is not YAML
EmptyDocument == [yaml |-> "empty"]
Unparsable == [yaml |-> "unparsable"]

\* yaml.safe_load raises on a file that is not YAML; load_manifest catches nothing
load_raises(f) == f # <<>> /\ f[1] = Unparsable

\* what load_manifest returns when it returns: safe_load gives None for a file
\* without document, and None is replaced by the default manifest
load_manifest(f) ==
    IF f = <<>> \/ f[1] = EmptyDocument THEN create_default_manifest ELSE f[1]

history_of(m, service) ==
    IF service \in DOMAIN m.history THEN m.history[service] ELSE <<>>

\* datetime.now(): deployed_at is the ordinal of the recording in the
\* service's history, which orders the entries of one service exactly as
\* the wall clock does.
clock(m, service) ==
    IF history_of(m, service) = <<>> THEN 0 ELSE history_of(m, service)[1].deployed_at

RECURSIVE total_clock(_, _)
total_clock(m, svcs) ==
    IF svcs = <<>> THEN 0 ELSE clock(m, Head(svcs)) + total_clock(m, Tail(svcs))

latest_clock(m) ==
    CHOOSE c \in {clock(m, s) : s \in ServiceSet} : \A s \in ServiceSet : clock(m, s) <= c

get_current_tag_services_first(m, service) ==
    IF service \in DOMAIN m.services THEN m.services[service].current_tag
    ELSE IF service \in DOMAIN m.custom_overrides
         THEN m.custom_overrides[service].tag
         ELSE "latest"

get_current_tag(m, service) ==
    IF service \in DOMAIN m.custom_overrides
    THEN m.custom_overrides[service].tag
    ELSE IF service \in DOMAIN m.services
         THEN m.services[service].current_tag
         ELSE "latest"

get_previous_tag_first_entry(m, service) ==
    LET h == history_of(m, service)
    IN  IF h # <<>> THEN h[1].tag ELSE NoTag

get_previous_tag(m, service) ==
    LET h == history_of(m, service)
        prev == {i \in 1..Len(h) : h[i].status = "previous"}
    IN  IF prev # {}
        THEN h[CHOOSE i \in prev : \A j \in prev : i <= j].tag
        ELSE IF Len(h) > 1 THEN h[2].tag ELSE NoTag

remove_key(f, k) == [x \in DOMAIN f \ {k} |-> f[x]]

take(s, n) == SubSeq(s, 1, IF Len(s) < n THEN Len(s) ELSE n)

mark_entry_keeps_current(e, is_rollback) ==
    IF e.status = "previous" THEN [e EXCEPT !.status = "archived"] ELSE e

mark_entry(e, is_rollback) ==
    IF e.status = "current"
    THEN [e EXCEPT !.status = IF is_rollback THEN "rolled-back" ELSE "previous"]
    ELSE IF e.status = "previous"
         THEN [e EXCEPT !.status = "archived"]
         ELSE e

insert_entry_unbounded(old, entry, is_rollback) ==
    <<entry>> \o [i \in 1..Len(old) |-> mark_entry(old[i], is_rollback)]

insert_entry(old, entry, is_rollback) ==
    take(<<entry>> \o [i \in 1..Len(old) |-> mark_entry(old[i], is_rollback)],
         HISTORY_LIMIT)

clear_override_never(overrides, service, is_rollback) == overrides

clear_override_always(overrides, service, is_rollback) ==
    IF service \in DOMAIN overrides THEN remove_key(overrides, service) ELSE overrides

clear_override(overrides, service, is_rollback) ==
    IF service \in DOMAIN overrides /\ ~is_rollback
    THEN remove_key(overrides, service)
    ELSE overrides

update_service_version(m, service, tag, is_rollback) ==
    LET now == clock(m, service) + 1
        service_data == [current_tag |-> tag, deployed_at |-> now, deployed_by |-> "user"]
        entry == [tag |-> tag, deployed_at |-> now, status |-> "current"]
    IN  [services |-> (service :> service_data) @@ m.services,
         history |-> (service :> insert_entry(history_of(m, service), entry, is_rollback))
                     @@ m.history,
         custom_overrides |-> clear_override(m.custom_overrides, service, is_rollback)]

----------------------------------------------------------------------------
(* The files *)

get_registry == "public.ecr.aws/n5k3t9x2"

\* name.upper() for the names of SERVICES
upper(name) ==
    IF name = "outpost" THEN "OUTPOST"
    ELSE IF name = "cmd_exec" THEN "CMD_EXEC"
    ELSE "VAULT"

image_of(name) ==
    IF name \in ECR_SERVICES THEN get_registry \o "/" \o name
    ELSE IF name = "vault" THEN "hashicorp/vault"
    ELSE get_registry \o "/" \o name

env_line(key, value) == [key |-> key, value |-> value]

\* the two lines appended for every name of svcs, in order
RECURSIVE service_lines(_, _)
service_lines(svcs, tag_of) ==
    IF svcs = <<>> THEN <<>>
    ELSE << env_line("DK_" \o upper(Head(svcs)) \o "_IMAGE", image_of(Head(svcs))),
            env_line("DK_" \o upper(Head(svcs)) \o "_TAG", tag_of[Head(svcs)]) >>
         \o service_lines(Tail(svcs), tag_of)

\* the assignments of versions.env, in the order they are written (comment
\* lines and blank lines are left out)
env_lines(tag_of) ==
    << env_line("DK_ECR_REGISTRY", get_registry) >> \o service_lines(SERVICES, tag_of)

generate_env_from_records(d, m) ==
    [d EXCEPT !.env = << env_lines([s \in ServiceSet |->
                            IF s \in DOMAIN m.services THEN m.services[s].current_tag
                            ELSE "latest"]) >>]

generate_env(d, m) ==
    [d EXCEPT !.env = << env_lines([s \in ServiceSet |-> get_current_tag(m, s)]) >>]

backup_manifest(d) ==
    IF d.file # <<>>
    THEN [d EXCEPT !.backups = d.file, !.copies = d.copies + 1]
    ELSE d

save_manifest(d, m) == [backup_manifest(d) EXCEPT !.file = <<m>>]

\* the files as the process finds them
disk == [file |-> file, backups |-> backups, env |-> env, copies |-> 0]

\* a command line: the command, --service (or "all") and --tag
command(cmd, service, tag) == [cmd |-> cmd, service |-> service, tag |-> tag]

\* the process exits
\* the exit code of version-manager.py: main drops what the command returns,
\* and an exception is printed and not re-raised; only a failed
\* check_docker_access ends the process with sys.exit(1)
main_exit_code(outcome) == IF outcome = "no-docker" THEN 1 ELSE 0

\* the process exits, having run the make targets of made and found the
\* registry answering as in registry
exit_asked(m, d, c, tried, pulled, outcome, made, registry) ==
    /\ manifest' = m
    /\ file' = d.file
    /\ backups' = d.backups
    /\ env' = d.env
    /\ last' = [cmd |-> c.cmd, service |-> c.service, tag |-> c.tag,
                tried |-> tried, pulled |-> pulled, outcome |-> outcome,
                copies |-> d.copies, made |-> made, registry |-> registry,
                code |-> main_exit_code(outcome)]

exit(m, d, c, tried, pulled, outcome) ==
    exit_asked(m, d, c, tried, pulled, outcome, <<>>, <<>>)

\* main checks the access to Docker before it constructs the VersionManager;
\* the manifest such a process would have loaded stands for its memory
no_docker(c) == exit(load_manifest(file), disk, c, {}, {}, "no-docker")

\* the recordings of a run are bounded
within(E, m, n) == total_clock(m, SERVICES) + n <= E.limit

pull_outcomes(E, service) == IF service \in E.up THEN E.oks ELSE {FALSE}

----------------------------------------------------------------------------
(* docker_pull_with_retry.  An image reference is the sequence of its path *)
(* segments, an output the sequence of its words; `x in y` of Python is    *)
(* containment of a run of segments or words.                              *)

max_retries == 2

\* y contains the run x
contains(x, y) ==
    \E i \in 1..(Len(y) - Len(x) + 1) : SubSeq(y, i, i + Len(x) - 1) = x

\* str.lower() on the words that occur in the outputs
lower_word(w) ==
    IF w = "Authorization" THEN "authorization"
    ELSE IF w = "Token" THEN "token"
    ELSE IF w = "Reauthenticate" THEN "reauthenticate"
    ELSE IF w = "Error:" THEN "error:"
    ELSE IF w = "Y" THEN "y"
    ELSE w

lower(output) == [i \in 1..Len(output) |-> lower_word(output[i])]

is_expired_case_sensitive(output) ==
    \/ contains(<<"authorization", "token", "has", "expired">>, output)
    \/ contains(<<"reauthenticate">>, output)

\* the failure is one of an expired token (line 241)
is_expired(output) ==
    \/ contains(<<"authorization", "token", "has", "expired">>, lower(output))
    \/ contains(<<"reauthenticate">>, lower(output))

\* the logouts clear_stale_ecr_credentials performs for a registry
clear_stale_ecr_credentials(registry) ==
    IF contains(<<"public.ecr.aws">>, registry) THEN 1 ELSE 0

returned_output_lowered(output) == lower(output)

\* the output is returned as run_command gave it
returned_output(output) == output

\* the loop from attempt on (attempts count from 0), outs[i] being what the
\* i-th docker pull gives
RECURSIVE pull_loop(_, _, _, _)
pull_loop(image, outs, attempt, logouts) ==
    IF attempt >= max_retries
    THEN [success |-> FALSE, output |-> returned_output(outs[attempt].output),
          attempts |-> attempt, logouts |-> logouts]
    ELSE LET r == outs[attempt + 1] IN
         IF r.ok
         THEN [success |-> TRUE, output |-> returned_output(r.output),
               attempts |-> attempt + 1, logouts |-> logouts]
         ELSE IF /\ is_expired(r.output)
                 /\ attempt < max_retries - 1
                 /\ contains(<<"public.ecr.aws">>, image)
         THEN pull_loop(image, outs, attempt + 1,
                        logouts + clear_stale_ecr_credentials(<<"public.ecr.aws">>))
         ELSE [success |-> FALSE, output |-> returned_output(r.output),
               attempts |-> attempt + 1, logouts |-> logouts]

docker_pull_with_retry(image, outs) == pull_loop(image, outs, 0, 0)

(* docker_pull_with_retry of docker-pull-retry.py, which returns the success *)
(* flag only and prints the output.                                         *)

script_is_expired_token_only(output) ==
    contains(<<"authorization", "token", "has", "expired">>, lower(output))

\* line 119 of docker-pull-retry.py
script_is_expired(output) ==
    \/ contains(<<"authorization", "token", "has", "expired">>, lower(output))
    \/ contains(<<"reauthenticate">>, lower(output))

script_clear_stale_ecr_credentials(registry) ==
    IF contains(<<"public.ecr.aws">>, registry) THEN 1 ELSE 0

RECURSIVE script_pull_loop(_, _, _, _)
script_pull_loop(image, outs, attempt, logouts) ==
    IF attempt >= max_retries
    THEN [success |-> FALSE, attempts |-> attempt, logouts |-> logouts]
    ELSE LET r == outs[attempt + 1] IN
         IF r.ok
         THEN [success |-> TRUE, attempts |-> attempt + 1, logouts |-> logouts]
         ELSE IF /\ script_is_expired(r.output)
                 /\ attempt < max_retries - 1
                 /\ contains(<<"public.ecr.aws">>, image)
         THEN script_pull_loop(image, outs, attempt + 1,
                  logouts + script_clear_stale_ecr_credentials(<<"public.ecr.aws">>))
         ELSE [success |-> FALSE, attempts |-> attempt + 1, logouts |-> logouts]

script_docker_pull_with_retry(image, outs) == script_pull_loop(image, outs, 0, 0)

----------------------------------------------------------------------------
(* The tag resolvers: resolve_tag_from_ecr of version-manager.py and       *)
(* resolve_latest_tag_from_ecr of migrate-to-versioned.py.  A digest is    *)
(* the sequence of its parts around ':' (<<>> is the empty string), the    *)
(* answer of `aws ecr-public describe-images` is a failure, an output that *)
(* is not JSON, or the list of the imageDetails.  A result is the tag      *)
(* returned (NoTag for None), the number of queries made and whether an    *)
(* exception left the function.                                            *)

\* y.endswith(x)
endswith(x, y) ==
    Len(x) <= Len(y) /\ SubSeq(y, Len(y) - Len(x) + 1, Len(y)) = x

\* t.startswith('sha')
startswith_sha(t) == t \in {"sha-1f3a", "sha256abc"}

isdigit(n) == [isdigit |-> TRUE, int |-> n]
notdigit(p) == [isdigit |-> FALSE, str |-> p]

\* [int(p) if p.isdigit() else p for p in x.replace('-', '.').split('.')]
sort_key(x) ==
    IF x = "1.42" THEN <<isdigit(1), isdigit(42)>>
    ELSE IF x = "1.43" THEN <<isdigit(1), isdigit(43)>>
    ELSE IF x = "1.9" THEN <<isdigit(1), isdigit(9)>>
    ELSE IF x = "1.10" THEN <<isdigit(1), isdigit(10)>>
    ELSE IF x = "2.0" THEN <<isdigit(2), isdigit(0)>>
    ELSE IF x = "1.2" THEN <<isdigit(1), isdigit(2)>>
    ELSE IF x = "1.x" THEN <<isdigit(1), notdigit("x")>>
    ELSE <<notdigit(x)>>

\* the first position where two keys differ, 0 when one is a prefix of the other
first_difference(a, b) ==
    LET n == IF Len(a) < Len(b) THEN Len(a) ELSE Len(b)
        d == {i \in 1..n : a[i] # b[i]}
    IN  IF d = {} THEN 0 ELSE CHOOSE i \in d : \A j \in d : i <= j

\* comparing the two keys raises TypeError: an int meets a str
unorderable(a, b) ==
    LET i == first_difference(a, b) IN
    i # 0 /\ a[i].isdigit # b[i].isdigit

\* a < b for two keys that can be ordered; no two strings are ever compared
\* that differ, the tags having one key that is not a number
key_less(a, b) ==
    LET i == first_difference(a, b) IN
    IF i = 0 THEN Len(a) < Len(b)
    ELSE a[i].isdigit /\ b[i].isdigit /\ a[i].int < b[i].int

elements(seq) == {seq[i] : i \in 1..Len(seq)}

select_semantic(tags, i) ==
    IF tags[i] # "latest" /\ ~startswith_sha(tags[i]) THEN <<tags[i]>> ELSE <<>>

\* [t for t in tags if t != 'latest' and not t.startswith('sha')]
RECURSIVE semantic_from(_, _)
semantic_from(tags, i) ==
    IF i > Len(tags) THEN <<>>
    ELSE select_semantic(tags, i) \o semantic_from(tags, i + 1)

semantic_tags(tags) == semantic_from(tags, 1)

\* the sort raises TypeError, which neither except clause catches
sort_raises(sem) ==
    \E t \in elements(sem), u \in elements(sem) : unorderable(sort_key(t), sort_key(u))

lowest_semantic(sem) ==
    CHOOSE t \in elements(sem) :
        \A u \in elements(sem) \ {t} : key_less(sort_key(t), sort_key(u))

\* semantic_tags[0] after the sort in reverse order
highest_semantic(sem) ==
    CHOOSE t \in elements(sem) :
        \A u \in elements(sem) \ {t} : key_less(sort_key(u), sort_key(t))

\* the value a loop over the records returns at a record with semantic tags
returned_tag(tags, queries) ==
    IF sort_raises(semantic_tags(tags))
    THEN [tag |-> NoTag, queries |-> queries, raised |-> TRUE]
    ELSE [tag |-> highest_semantic(semantic_tags(tags)), queries |-> queries,
          raised |-> FALSE]

returns_none(queries) == [tag |-> NoTag, queries |-> queries, raised |-> FALSE]

\* the first of the records hit that has semantic tags; 0 if none
first_record(details, hit) ==
    LET found == {i \in hit : semantic_tags(details[i].imageTags) # <<>>}
    IN  IF found = {} THEN 0 ELSE CHOOSE i \in found : \A j \in found : i <= j

\* the records tagged 'latest'
tagged_latest(details) ==
    {i \in 1..Len(details) : "latest" \in elements(details[i].imageTags)}

\* the condition of line 308 of version-manager.py
vm_digest_matches(clean_digest, ecr_digest) ==
    /\ clean_digest # <<>>
    /\ ecr_digest # <<>>
    /\ \/ ecr_digest = clean_digest
       \/ contains(clean_digest, ecr_digest)
       \/ contains(ecr_digest, clean_digest)

\* the condition of line 203 of migrate-to-versioned.py
wizard_digest_matches(digest, image_digest) ==
    /\ digest # <<>>
    /\ \/ image_digest = digest
       \/ endswith(image_digest, digest)
       \/ endswith(<<digest[Len(digest)]>>, image_digest)

\* the two loops over the records, those whose digest matches first and
\* those tagged 'latest' second
resolve_from_details(details, matches, queries) ==
    LET by_digest == first_record(details, matches)
        by_latest == first_record(details, tagged_latest(details))
    IN  IF by_digest # 0 THEN returned_tag(details[by_digest].imageTags, queries)
        ELSE IF by_latest # 0 THEN returned_tag(details[by_latest].imageTags, queries)
        ELSE returns_none(queries)

resolve_tag_from_ecr(service_name, image_digest, answer) ==
    LET details == answer.imageDetails
        matches == {i \in 1..Len(details) :
                      vm_digest_matches(image_digest, details[i].imageDigest)}
    IN  IF ~answer.ok THEN returns_none(1)
        ELSE IF ~answer.json THEN returns_none(1)
        ELSE resolve_from_details(details, matches, 1)

resolve_latest_tag_from_ecr(service_name, digest, registry, answer) ==
    LET details == answer.imageDetails
        matches == {i \in 1..Len(details) :
                      wizard_digest_matches(digest, details[i].imageDigest)}
    IN  IF service_name \notin ECR_SERVICES THEN returns_none(0)
        ELSE IF ~contains(<<"public.ecr.aws">>, registry) THEN returns_none(0)
        ELSE IF Len(registry) <= 1 THEN returns_none(0)
        ELSE IF ~answer.ok THEN returns_none(1)
        ELSE IF ~answer.json THEN returns_none(1)
        ELSE resolve_from_details(details, matches, 1)

----------------------------------------------------------------------------
(* pull --service --tag *)

pull_result_always_records(m, service, tag, success) ==
    update_service_version(m, service, tag, FALSE)

pull_result(m, service, tag, success) ==
    IF success THEN update_service_version(m, service, tag, FALSE) ELSE m

pull(E) ==
    \E service \in E.svcs, tag \in E.tags :
        LET m == load_manifest(file)
            c == command("pull", service, tag)
        IN  \E docker \in E.docker :
            IF ~docker THEN no_docker(c)
            ELSE IF service \notin ServiceSet
            THEN exit(m, disk, c, {}, {}, "unknown-service")
            ELSE \E success \in pull_outcomes(E, service) :
                    /\ success => within(E, m, 1)
                    /\ LET m1 == pull_result(m, service, tag, success) IN
                       IF success
                       THEN exit(m1, generate_env(save_manifest(disk, m1), m1),
                                 c, {service}, {service}, "done")
                       ELSE exit(m1, disk, c, {service}, {}, "pull-failed")

----------------------------------------------------------------------------
(* Inputs shared by the commands that pull several images *)

\* the sets of services whose pull can succeed in one pass over SERVICES
pulled_sets(E, candidates) ==
    {P \in SUBSET candidates :
        \A s \in candidates : (s \in P) \in pull_outcomes(E, s)}

in_order(S) == SelectSeq(SERVICES, LAMBDA s : s \in S)

RECURSIVE record_each(_, _, _, _)
record_each(m, svcs, tag_of, is_rollback) ==
    IF svcs = <<>> THEN m
    ELSE record_each(update_service_version(m, Head(svcs), tag_of[Head(svcs)], is_rollback),
                     Tail(svcs), tag_of, is_rollback)

----------------------------------------------------------------------------
(* set --service --tag *)

set_version_result(m, service, tag) ==
    LET m1 == update_service_version(m, service, tag, FALSE)
    IN  [m1 EXCEPT !.custom_overrides =
            (service :> [tag |-> tag, reason |-> "Custom version set via CLI",
                         applied_at |-> clock(m1, service)]) @@ m1.custom_overrides]

set_version(E) ==
    \E service \in E.svcs, tag \in E.tags :
        LET m == load_manifest(file)
            c == command("set", service, tag)
        IN  IF service \notin ServiceSet
            THEN exit(m, disk, c, {}, {}, "unknown-service")
            ELSE \E success \in pull_outcomes(E, service) :
                    IF ~success
                    THEN exit(m, disk, c, {service}, {}, "pull-failed")
                    ELSE /\ within(E, m, 1)
                         /\ LET m1 == set_version_result(m, service, tag) IN
                            exit(m1, generate_env(save_manifest(disk, m1), m1),
                                 c, {service}, {service}, "done")

----------------------------------------------------------------------------
(* rollback [--service | --all] [--tag] *)

services_to_rollback(who) ==
    IF who = "all" THEN ServiceSet ELSE IF who = NoTag THEN {} ELSE {who}

rollback_target(m, svc, tag) ==
    IF tag # NoTag THEN tag ELSE get_previous_tag(m, svc)

rollback_plan_any_target(m, who, tag) ==
    {svc \in services_to_rollback(who) : rollback_target(m, svc, tag) # NoTag}

rollback_plan(m, who, tag) ==
    {svc \in services_to_rollback(who) :
        /\ rollback_target(m, svc, tag) # NoTag
        /\ rollback_target(m, svc, tag) # get_current_tag(m, svc)}

rollback_result_unrecorded(m, done, tag) == m

rollback_result(m, done, tag) ==
    record_each(m, in_order(done), [svc \in done |-> rollback_target(m, svc, tag)], TRUE)

rollback(E) ==
    \E who \in E.svcs \cup E.whos, tag \in E.tags \cup {NoTag} :
        LET m == load_manifest(file)
            c == command("rollback", who, tag)
            plan == rollback_plan(m, who, tag)
        IN  \E docker \in E.docker :
            IF ~docker THEN no_docker(c)
            ELSE IF who = NoTag
            THEN exit(m, disk, c, {}, {}, "no-service")
            ELSE IF plan = {}
            THEN exit(m, disk, c, {}, {}, "no-plan")
            ELSE \E answer \in E.answers :
                    IF ~answer
                    THEN exit(m, disk, c, {}, {}, "cancelled")
                    ELSE IF ~(plan \subseteq ServiceSet)
                    THEN exit(m, disk, c, {}, {}, "crash")    \* get_image_name raises
                    ELSE \E done \in pulled_sets(E, plan) :
                            /\ within(E, m, Cardinality(done))
                            /\ LET m1 == rollback_result(m, done, tag) IN
                               IF done # {}
                               THEN exit(m1, generate_env(save_manifest(disk, m1), m1),
                                         c, plan, done, "done")
                               ELSE exit(m1, disk, c, plan, {}, "pull-failed")

----------------------------------------------------------------------------
(* resolve-tags *)

set_resolved(m, svc, resolved_tag) ==
    LET h == history_of(m, svc)
        hit == {i \in 1..Len(h) : h[i].status = "current" /\ h[i].tag = "latest"}
        first == CHOOSE i \in hit : \A j \in hit : i <= j
    IN  [m EXCEPT !.services[svc].current_tag = resolved_tag,
                  !.history = IF hit = {} THEN @
                              ELSE [@ EXCEPT ![svc][first].tag = resolved_tag]]

\* the services the loop asks the registry about
to_resolve(m, services) ==
    {svc \in services \cap ECR_SERVICES : get_current_tag(m, svc) = "latest"}

RECURSIVE resolve_loop(_, _, _)
resolve_loop(st, svcs, res) ==
    IF svcs = <<>> \/ st.crashed THEN st
    ELSE LET svc == Head(svcs) IN
         IF svc \notin to_resolve(st.m, {svc}) \/ res[svc] = NoTag
         THEN resolve_loop(st, Tail(svcs), res)
         ELSE IF svc \notin DOMAIN st.m.services
         THEN [st EXCEPT !.crashed = TRUE]          \* KeyError at line 934
         ELSE resolve_loop([st EXCEPT !.m = set_resolved(st.m, svc, res[svc]),
                                      !.count = st.count + 1],
                           Tail(svcs), res)

resolve_latest_tags(m, d, services, access, res) ==
    IF ~access THEN [m |-> m, d |-> d, count |-> 0, crashed |-> FALSE]
    ELSE LET st == resolve_loop([m |-> m, count |-> 0, crashed |-> FALSE],
                                in_order(services), res)
         IN  [m |-> st.m,
              d |-> IF ~st.crashed /\ st.count > 0
                    THEN generate_env(save_manifest(d, st.m), st.m)
                    ELSE d,
              count |-> st.count,
              crashed |-> st.crashed]

\* the answers of the registry: whether it can be queried, and the tag
\* resolve_tag_from_ecr returns for each service it is asked about
registry_answers(E, m, services) ==
    {[access |-> a, res |-> r] :
        a \in E.access,
        r \in [to_resolve(m, services) -> E.resolved]}

resolve_tags(E) ==
    LET m == load_manifest(file) IN
    \E ans \in registry_answers(E, m, ServiceSet) :
        /\ ans.access \/ \A svc \in DOMAIN ans.res : ans.res[svc] = NoTag
        /\ LET r == resolve_latest_tags(m, disk, ServiceSet, ans.access, ans.res) IN
           exit_asked(r.m, r.d, command("resolve-tags", NoTag, NoTag), {}, {},
                IF r.crashed THEN "crash"
                ELSE IF ~ans.access THEN "no-access"
                ELSE IF r.count = 0 THEN "none-resolved" ELSE "done",
                <<>>, ans.res)

----------------------------------------------------------------------------
(* pull-latest *)

latest_for(S) == [svc \in S |-> "latest"]

pull_latest(E) ==
    LET m == load_manifest(file) IN
    \E docker \in E.docker :
    \E pulled \in IF docker THEN pulled_sets(E, ServiceSet) ELSE {{}} :
        IF ~docker THEN no_docker(command("pull-latest", NoTag, NoTag))
        ELSE IF pulled = {}
        THEN exit(m, disk, command("pull-latest", NoTag, NoTag), ServiceSet, {},
                  "pull-failed")
        ELSE /\ within(E, m, Cardinality(pulled))
             /\ LET m1 == record_each(m, in_order(pulled), latest_for(pulled), FALSE)
                    d1 == save_manifest(disk, m1)
                IN  \E ans \in registry_answers(E, m1, pulled) :
                        /\ ans.access \/ \A svc \in DOMAIN ans.res : ans.res[svc] = NoTag
                        /\ LET r == resolve_latest_tags(m1, d1, pulled, ans.access, ans.res)
                           IN  exit_asked(r.m, r.d, command("pull-latest", NoTag, NoTag),
                                    ServiceSet, pulled,
                                    IF r.crashed THEN "crash" ELSE "done",
                                    <<>>, ans.res)

----------------------------------------------------------------------------
(* update-safe *)

update_safe_recorded_failed(pulled) == ServiceSet \ pulled

update_safe_recorded(pulled) == pulled

\* steps 5 and 6: make stop, whose result is dropped, then make start
update_safe_restart(stopped, started) ==
    << [target |-> "stop", ok |-> stopped], [target |-> "start", ok |-> started] >>

update_safe(E) ==
    LET m == load_manifest(file)
        d0 == backup_manifest(disk)
    IN  \E docker \in E.docker :
        \E pulled \in IF docker THEN pulled_sets(E, ServiceSet) ELSE {{}} :
        \E answer \in IF docker /\ pulled # ServiceSet THEN E.answers ELSE {TRUE} :
            IF ~docker THEN no_docker(command("update-safe", NoTag, NoTag))
            ELSE IF ~answer
            THEN exit(m, d0, command("update-safe", NoTag, NoTag), ServiceSet, pulled,
                      "cancelled")
            ELSE LET rec == update_safe_recorded(pulled) IN
                 /\ within(E, m, Cardinality(rec))
                 /\ LET m1 == record_each(m, in_order(rec), latest_for(rec), FALSE)
                        d1 == save_manifest(d0, m1)
                    IN  \E ans \in registry_answers(E, m1, pulled) :
                            /\ ans.access \/ \A svc \in DOMAIN ans.res : ans.res[svc] = NoTag
                            /\ LET r == resolve_latest_tags(m1, d1, pulled, ans.access, ans.res)
                               IN  IF r.crashed
                                   THEN exit_asked(r.m, r.d,
                                             command("update-safe", NoTag, NoTag),
                                             ServiceSet, pulled, "crash", <<>>, ans.res)
                                   ELSE \E stopped \in E.stops, started \in E.starts :
                                            exit_asked(r.m, r.d,
                                                 command("update-safe", NoTag, NoTag),
                                                 ServiceSet, pulled,
                                                 IF started THEN "done" ELSE "start-failed",
                                                 update_safe_restart(stopped, started),
                                                 ans.res)

----------------------------------------------------------------------------
(* show: the VersionManager is constructed, the manifest is printed *)

show ==
    IF load_raises(file)
    THEN exit(manifest, disk, command("show", NoTag, NoTag), {}, {}, "crash")
    ELSE exit(load_manifest(file), disk, command("show", NoTag, NoTag), {}, {}, "done")

----------------------------------------------------------------------------
(* generate-env *)

generate_env_command(E) ==
    LET m == load_manifest(file) IN
    exit(m, generate_env(disk, m), command("generate-env", NoTag, NoTag), {}, {}, "done")

----------------------------------------------------------------------------
(* ecr-login *)

\* whether the ecr section of the manifest names a private registry is set by
\* hand only, so it is an input here, like the outcome of the login
ecr_login(E) ==
    LET m == load_manifest(file) IN
    \E private \in E.private, login \in E.logins :
        exit(m, disk, command("ecr-login", NoTag, NoTag), {}, {},
             IF ~private \/ login THEN "done" ELSE "login-failed")

----------------------------------------------------------------------------
(* The migration wizard *)

create_manifest_from_detected(images, now) ==
    [services |-> [service \in DOMAIN images |->
                      [current_tag |-> images[service],
                       deployed_at |-> now, deployed_by |-> "migration"]],
     history |-> [service \in DOMAIN images |->
                      << [tag |-> images[service],
                          deployed_at |-> now, status |-> "current"] >>],
     custom_overrides |-> <<>>]

create_manifest_from_current(images, now) ==
    [services |-> [service \in ServiceSet |->
                      [current_tag |-> IF service \in DOMAIN images
                                       THEN images[service] ELSE "latest",
                       deployed_at |-> now, deployed_by |-> "migration"]],
     history |-> [service \in ServiceSet |->
                      << [tag |-> IF service \in DOMAIN images
                                  THEN images[service] ELSE "latest",
                          deployed_at |-> now, status |-> "current"] >>],
     custom_overrides |-> <<>>]

generate_versions_env(m) ==
    env_lines([s \in ServiceSet |->
                  IF s \in DOMAIN m.services THEN m.services[s].current_tag ELSE "latest"])

\* main of the wizard: sys.exit(0 if success else 1)
wizard_exit_code(success) == IF success THEN 0 ELSE 1

confirm_default_yes(response) ==
    response = "" \/ lower_word(response) \in {"yes", "y"}

\* confirm of the wizard, with its default of False, on what the operator
\* typed ("" when nothing was typed or the input ended)
confirm(response) ==
    IF response = "" THEN FALSE ELSE lower_word(response) \in {"yes", "y"}

\* the prompts of the wizard that are reached and the responses to them
asked(prompts, responses) ==
    [i \in 1..Len(prompts) |-> [prompt |-> prompts[i], response |-> responses[i]]]

\* the prompts reached, given the responses r to the prompts "continue",
\* "overwrite", "anyway" and "create" in this order
prompts_reached(exists, detected, r) ==
    <<"continue">>
      \o (IF confirm(r[1]) /\ exists THEN <<"overwrite">> ELSE <<>>)
      \o (IF confirm(r[1]) /\ (exists => confirm(r[2])) /\ ~detected
          THEN <<"anyway">> ELSE <<>>)
      \o (IF confirm(r[1]) /\ (exists => confirm(r[2])) /\ (~detected => confirm(r[3]))
          THEN <<"create">> ELSE <<>>)

responses_given(exists, detected, r) ==
    <<r[1]>>
      \o (IF confirm(r[1]) /\ exists THEN <<r[2]>> ELSE <<>>)
      \o (IF confirm(r[1]) /\ (exists => confirm(r[2])) /\ ~detected
          THEN <<r[3]>> ELSE <<>>)
      \o (IF confirm(r[1]) /\ (exists => confirm(r[2])) /\ (~detected => confirm(r[3]))
          THEN <<r[4]>> ELSE <<>>)

migrate(E) ==
    LET now == latest_clock(load_manifest(file)) + 1 IN
    /\ Len(SERVICES) * now <= E.limit
    /\ \E images \in E.snapshots, r \in [1..4 -> E.responses] :
        LET exists == file # <<>>
            detected == DOMAIN images # {}
            prompts == prompts_reached(exists, detected, r)
            answers == asked(prompts, responses_given(exists, detected, r))
        IN
        \* the responses to the prompts that are not reached do not matter
        /\ \A i \in 1..4 :
              <<"continue", "overwrite", "anyway", "create">>[i]
                  \notin {prompts[j] : j \in 1..Len(prompts)} => r[i] = ""
        /\ IF ~confirm(answers[Len(answers)].response) \/ prompts[Len(prompts)] # "create"
           THEN /\ last' = [cmd |-> "migrate", service |-> NoTag, tag |-> NoTag,
                            tried |-> {}, pulled |-> {}, outcome |-> "cancelled",
                            copies |-> 0, made |-> <<>>, registry |-> <<>>,
                            code |-> wizard_exit_code(FALSE), asked |-> answers]
                /\ UNCHANGED <<manifest, file, backups, env>>
           ELSE LET m == create_manifest_from_current(images, now) IN
                /\ manifest' = m
                /\ file' = <<m>>
                /\ env' = <<generate_versions_env(m)>>
                /\ last' = [cmd |-> "migrate", service |-> NoTag, tag |-> NoTag,
                            tried |-> {}, pulled |-> {}, outcome |-> "done", copies |-> 0,
                            made |-> <<>>, registry |-> <<>>,
                            code |-> wizard_exit_code(TRUE), images |-> images,
                            asked |-> answers]
                /\ UNCHANGED backups

----------------------------------------------------------------------------
(* Specifications *)

Init ==
    /\ manifest = create_default_manifest
    /\ file = <<>>
    /\ backups = <<>>
    /\ env = <<>>
    /\ last = [cmd |-> "none", service |-> NoTag, tag |-> NoTag,
               tried |-> {}, pulled |-> {}, outcome |-> "none", copies |-> 0,
               made |-> <<>>, registry |-> <<>>, code |-> 0]

\* what get_running_images can return: nothing running, only outpost
\* running, everything running
Snapshots ==
    { <<>>,
      ("outpost" :> "1.42"),
      ("outpost" :> "1.42") @@ ("cmd_exec" :> "latest") @@ ("vault" :> "latest") }

Commands(E) ==
    \/ generate_env_command(E)
    \/ pull(E)
    \/ set_version(E)
    \/ rollback(E)
    \/ resolve_tags(E)
    \/ pull_latest(E)
    \/ update_safe(E)

\* Spec: every service is served, every pull may fail, every prompt may be
\* declined; the operator asks for "latest" or "1.42".
WideEnv ==
    [svcs |-> ServiceSet, whos |-> {"all"}, tags |-> {"latest", "1.42"},
     up |-> ServiceSet, oks |-> BOOLEAN, answers |-> BOOLEAN, access |-> BOOLEAN,
     resolved |-> {"1.42", NoTag}, starts |-> BOOLEAN, stops |-> {TRUE},
     docker |-> {TRUE},
     snapshots |-> Snapshots, limit |-> MaxOps]

Next == Commands(WideEnv)

Spec == Init /\ [][Next]_vars

\* SpecService: the commands name outpost, a service that does not exist or
\* no service; the operator asks for "1.42" or "1.43".
ServiceEnv ==
    [svcs |-> {"outpost", "other"}, whos |-> {"all", NoTag}, tags |-> SemanticTags,
     up |-> {"outpost"}, oks |-> BOOLEAN, answers |-> BOOLEAN, access |-> BOOLEAN,
     resolved |-> {"1.43", NoTag}, starts |-> BOOLEAN, stops |-> BOOLEAN,
     docker |-> BOOLEAN, private |-> BOOLEAN, logins |-> BOOLEAN,
     snapshots |-> Snapshots, limit |-> MaxSeq]

NextService == Commands(ServiceEnv) \/ ecr_login(ServiceEnv)

SpecService == Init /\ [][NextService]_vars

\* SpecHistory: outpost is recorded again and again; nothing fails.
HistoryEnv ==
    [svcs |-> {"outpost"}, whos |-> {"all"}, tags |-> {"1.42"},
     up |-> {"outpost"}, oks |-> {TRUE}, answers |-> {TRUE}, access |-> BOOLEAN,
     resolved |-> {"1.42", NoTag}, starts |-> {TRUE}, stops |-> {TRUE},
     docker |-> {TRUE},
     snapshots |-> Snapshots, limit |-> MaxRec]

NextHistory == Commands(HistoryEnv)

SpecHistory == Init /\ [][NextHistory]_vars

\* SpecMigrate: the wizard runs, before and after the commands.
MigrateEnv ==
    [svcs |-> {"outpost"}, whos |-> {"all"}, tags |-> {"1.42"},
     up |-> {"outpost", "vault"}, oks |-> {TRUE}, answers |-> BOOLEAN, access |-> BOOLEAN,
     resolved |-> {"1.43", NoTag}, starts |-> {TRUE}, stops |-> {TRUE},
     docker |-> {TRUE}, responses |-> {"yes", "Y", "no", ""},
     snapshots |-> Snapshots, limit |-> MaxMig]

NextMigrate == Commands(MigrateEnv) \/ migrate(MigrateEnv)

SpecMigrate == Init /\ [][NextMigrate]_vars

\* SpecPinned: the commands name outpost, starting from the default manifest
\* or from the manifest the wizard builds when everything runs; the operator
\* asks for "latest" or "1.42" and the registry resolves to "1.43".
PinnedEnv ==
    [svcs |-> {"outpost"}, whos |-> {}, tags |-> {"latest", "1.42"},
     up |-> {"outpost"}, oks |-> {TRUE}, answers |-> {TRUE}, access |-> {TRUE},
     resolved |-> {"1.43", NoTag}, starts |-> {TRUE}, stops |-> {TRUE},
     docker |-> {TRUE},
     snapshots |-> Snapshots, limit |-> MaxPin]

MigrationBuilt ==
    create_manifest_from_current(
        ("outpost" :> "1.42") @@ ("cmd_exec" :> "latest") @@ ("vault" :> "latest"), 1)

InitPinned ==
    /\ manifest = create_default_manifest
    /\ file \in {<<>>, <<MigrationBuilt>>}
    /\ backups = <<>>
    /\ env = IF file = <<>> THEN <<>> ELSE <<generate_versions_env(file[1])>>
    /\ last = [cmd |-> "none", service |-> NoTag, tag |-> NoTag,
               tried |-> {}, pulled |-> {}, outcome |-> "none", copies |-> 0,
               made |-> <<>>, registry |-> <<>>, code |-> 0]

NextPinned == Commands(PinnedEnv)

SpecPinned == InitPinned /\ [][NextPinned]_vars

\* SpecLoad: the VersionManager is constructed on every kind of manifest
\* file: none, one without document, one that is not YAML, and the files saved
\* after up to MaxSaved recordings.
RECURSIVE Recorded(_)
Recorded(n) ==
    IF n = 0 THEN {create_default_manifest}
    ELSE Recorded(n - 1) \cup
         {update_service_version(m, s, t, FALSE) :
            m \in Recorded(n - 1), s \in ServiceSet, t \in Tags}

Documents ==
    {<<>>, <<EmptyDocument>>, <<Unparsable>>} \cup {<<m>> : m \in Recorded(MaxSaved)}

InitLoad ==
    /\ file \in Documents
    /\ manifest = create_default_manifest
    /\ backups = <<>>
    /\ env = IF load_raises(file) \/ file = <<>> THEN <<>>
             ELSE generate_env([file |-> file, backups |-> <<>>, env |-> <<>>,
                                copies |-> 0], load_manifest(file)).env
    /\ last = [cmd |-> "none", service |-> NoTag, tag |-> NoTag,
               tried |-> {}, pulled |-> {}, outcome |-> "none", copies |-> 0,
               made |-> <<>>, registry |-> <<>>, code |-> 0]

NextLoad == show

SpecLoad == InitLoad /\ [][NextLoad]_vars

\* SpecPull: both docker_pull_with_retry are called on an image of the public
\* registry, of a private registry or of DockerHub, with every sequence of
\* results of the docker pulls it may run.
Images ==
    { <<"public.ecr.aws", "n5k3t9x2", "outpost:latest">>,
      <<"123456789012.dkr.ecr.us-east-1.amazonaws.com", "outpost:1.42">>,
      <<"hashicorp", "vault:latest">> }

Outputs ==
    { <<"pull", "access", "denied:", "authorization", "token", "has", "expired">>,
      <<"Error:", "Authorization", "Token", "has", "expired">>,
      <<"Reauthenticate", "and", "try", "again">>,
      <<"token", "has", "expired">>,
      <<"manifest", "unknown">>,
      <<"Command", "timed", "out">> }

PullResults ==
    {[ok |-> TRUE, output |-> <<"Status:", "Downloaded">>]}
        \cup {[ok |-> FALSE, output |-> o] : o \in Outputs}

InitPull ==
    /\ manifest = create_default_manifest
    /\ file = <<>>
    /\ backups = <<>>
    /\ env = <<>>
    /\ \E image \in Images, outs \in [1..MaxPulls -> PullResults] :
            last = [cmd |-> "none", image |-> image, outs |-> outs]

pull_image ==
    /\ last.cmd = "none"
    /\ last' = [cmd |-> "docker_pull_with_retry", image |-> last.image,
                outs |-> last.outs,
                result |-> docker_pull_with_retry(last.image, last.outs),
                script |-> script_docker_pull_with_retry(last.image, last.outs)]
    /\ UNCHANGED <<manifest, file, backups, env>>

NextPull == pull_image

SpecPull == InitPull /\ [][NextPull]_vars

\* SpecResolve: both resolvers are applied to a service, the digest of its
\* running image, the image name the wizard passes as registry and an answer
\* of the registry.
Digests == {<<"sha256", "1f3a">>, <<"sha256", "9c0d">>}

ImageTags ==
    { <<"latest">>, <<"1.42">>, <<"latest", "1.42", "1.43">>,
      <<"1.9", "1.43", "latest">>, <<"sha-1f3a", "latest">>,
      <<"v2", "1.43", "latest">>,
      <<"1.9", "1.10", "2.0", "latest", "sha256abc">>, <<"1.9", "1.10">>,
      <<"sha-1f3a">>, <<"1.2", "1.x", "latest">> }

ImageDetails ==
    {[imageDigest |-> d, imageTags |-> t] : d \in Digests \cup {<<>>}, t \in ImageTags}

RECURSIVE UpTo(_, _)
UpTo(S, n) ==
    IF n = 0 THEN {<<>>}
    ELSE UpTo(S, n - 1) \cup {Append(q, x) : q \in UpTo(S, n - 1), x \in S}

EcrAnswers ==
    {[ok |-> FALSE], [ok |-> TRUE, json |-> FALSE]}
        \cup {[ok |-> TRUE, json |-> TRUE, imageDetails |-> q] :
                 q \in UpTo(ImageDetails, MaxImages)}

ImageNames ==
    { <<"public.ecr.aws", "n5k3t9x2", "outpost">>, <<"hashicorp", "vault">> }

InitResolve ==
    /\ manifest = create_default_manifest
    /\ file = <<>>
    /\ backups = <<>>
    /\ env = <<>>
    /\ \E svc \in ServiceSet, digest \in {<<>>, <<"sha256", "1f3a">>},
          registry \in ImageNames, answer \in EcrAnswers :
            last = [cmd |-> "none", service |-> svc, digest |-> digest,
                    registry |-> registry, answer |-> answer]

resolve ==
    /\ last.cmd = "none"
    /\ last' = [cmd |-> "resolve", service |-> last.service, digest |-> last.digest,
                registry |-> last.registry, answer |-> last.answer,
                vm |-> resolve_tag_from_ecr(last.service, last.digest, last.answer),
                wizard |-> resolve_latest_tag_from_ecr(last.service, last.digest,
                                                       last.registry, last.answer)]
    /\ UNCHANGED <<manifest, file, backups, env>>

NextResolve == resolve

SpecResolve == InitResolve /\ [][NextResolve]_vars

----------------------------------------------------------------------------
(* Properties *)

\* the manifest the next process will load
loaded == load_manifest(file)

Min(a, b) == IF a < b THEN a ELSE b

\* the value versions.env content e assigns to the TAG variable of service s
env_tag(e, s) ==
    LET i == CHOOSE i \in 1..Len(e) : e[i].key = "DK_" \o upper(s) \o "_TAG"
    IN  e[i].value

\* C1: the history of a service never holds more than HISTORY_LIMIT (5)
\* entries; a recording puts the new entry at the front, moves the entries it
\* keeps one place back in their order and drops the oldest one beyond the
\* limit, so that after N >= 5 recordings the history is exactly the 5 most
\* recent recordings, newest first.
C1_Shape(m) ==
    \A s \in ServiceSet :
        LET h == history_of(m, s) IN
        /\ Len(h) <= HISTORY_LIMIT
        /\ Len(h) = Min(clock(m, s), HISTORY_LIMIT)
        /\ \A i \in 1..Len(h) : h[i].deployed_at = clock(m, s) - i + 1

C1_Step ==
    \A s \in ServiceSet :
        LET old == history_of(loaded, s)
            new == history_of(manifest', s)
        IN  IF clock(manifest', s) # clock(loaded, s)
            THEN /\ new[1].deployed_at = clock(loaded, s) + 1
                 /\ new[1].status = "current"
                 /\ Len(new) = Min(Len(old) + 1, HISTORY_LIMIT)
                 /\ \A i \in 2..Len(new) :
                        /\ new[i].tag = old[i - 1].tag
                        /\ new[i].deployed_at = old[i - 1].deployed_at
            ELSE /\ Len(new) = Len(old)
                 /\ \A i \in 1..Len(new) : new[i].deployed_at = old[i].deployed_at

C1_HistoryKeepsFiveMostRecent ==
    [](C1_Shape(manifest) /\ C1_Shape(loaded)) /\ [][C1_Step]_vars

\* C1 witness: a sixth recording has been made and the history holds five entries
C1_SixthRecordingDropsOldest ==
    /\ last.outcome = "done"
    /\ "outpost" \in last.pulled
    /\ clock(manifest, "outpost") > HISTORY_LIMIT
    /\ Len(history_of(manifest, "outpost")) = HISTORY_LIMIT
    /\ file = <<manifest>>

\* C2: in every manifest the commands and the wizard produce, a service with a
\* non-empty history has exactly one entry of status 'current', and it is the
\* first entry.
C2_OneCurrent(m) ==
    \A s \in DOMAIN m.history :
        LET h == m.history[s] IN
        h # <<>> => /\ h[1].status = "current"
                    /\ \A i \in 2..Len(h) : h[i].status # "current"

C2_SingleCurrentEntryFirst == C2_OneCurrent(manifest) /\ C2_OneCurrent(loaded)

\* C2 witness: a manifest built by the wizard, then a service recorded twice
C2_RecordedAfterMigration ==
    /\ "vault" \in DOMAIN manifest.services
    /\ manifest.services["vault"].deployed_by = "migration"
    /\ Len(history_of(manifest, "outpost")) >= 3
    /\ manifest.services["outpost"].deployed_by = "user"
    /\ file = <<manifest>>

\* C3: the effective tag of a service is the tag of its override when it has
\* one, whatever its record says, and the current tag of its record otherwise;
\* the environment file a command generates carries that tag.
C3_Effective(m, s) ==
    IF s \in DOMAIN m.custom_overrides THEN m.custom_overrides[s].tag
    ELSE IF s \in DOMAIN m.services THEN m.services[s].current_tag
    ELSE "latest"

C3_EffectiveTagPrefersOverride ==
    /\ \A s \in ServiceSet :
        /\ get_current_tag(manifest, s) = C3_Effective(manifest, s)
        /\ get_current_tag(loaded, s) = C3_Effective(loaded, s)
    /\ last.cmd \in {"pull", "set", "rollback"} /\ last.outcome = "done"
        => /\ env # <<>>
           /\ \A s \in ServiceSet : env_tag(env[1], s) = C3_Effective(manifest, s)

\* C3 witness: an override whose tag differs from the current tag of the record
C3_OverrideDiffersFromRecord ==
    /\ last.cmd = "rollback" /\ last.outcome = "done"
    /\ \E s \in DOMAIN manifest.custom_overrides :
        /\ manifest.services[s].current_tag # manifest.custom_overrides[s].tag
        /\ s \in last.pulled

\* C4: a pull of (service, tag) that succeeds leaves no override for the
\* service and makes tag its effective tag, in memory and in the persisted
\* manifest, also when a set had pinned the service before.
C4_PullClearsOverride ==
    last.cmd = "pull" /\ last.outcome = "done"
        => /\ last.service \notin DOMAIN manifest.custom_overrides
           /\ get_current_tag(manifest, last.service) = last.tag
           /\ file = <<manifest>>

\* C4 witness: the pull ran on a manifest in which the service was pinned to
\* another tag
C4_PullAfterSet ==
    /\ last.cmd = "pull" /\ last.outcome = "done" /\ last.copies = 1
    /\ last.service \in DOMAIN backups[1].custom_overrides
    /\ backups[1].custom_overrides[last.service].tag # last.tag

\* C5: a rollback, of one service or of all, leaves the overrides of every
\* service exactly as the manifest it loaded had them.
C5_Step ==
    last'.cmd = "rollback" => manifest'.custom_overrides = loaded.custom_overrides

C5_RollbackKeepsOverrides == [][C5_Step]_vars

\* C5 witness: a rollback recorded a service that has an override
C5_RolledBackPinnedService ==
    /\ last.cmd = "rollback" /\ last.outcome = "done"
    /\ last.pulled \cap DOMAIN manifest.custom_overrides # {}
    /\ file = <<manifest>>

\* C6: when the history of a service is [A current, B previous] with A # B and
\* the service has no override, a rollback of the service without a tag takes
\* B as its target; when the pull succeeds, B is recorded as the new current
\* entry at the front and the entry of A becomes 'rolled-back'.
C6_Pre(s) ==
    LET h == history_of(loaded, s) IN
    /\ Len(h) = 2
    /\ h[1].status = "current" /\ h[2].status = "previous"
    /\ h[1].tag # h[2].tag
    /\ s \notin DOMAIN loaded.custom_overrides

C6_Step ==
    \A s \in ServiceSet :
        C6_Pre(s) /\ last'.cmd = "rollback" /\ last'.service = s /\ last'.tag = NoTag
        => LET old == history_of(loaded, s)
               new == history_of(manifest', s)
           IN  /\ last'.outcome # "no-plan"
               /\ last'.tried \subseteq {s}
               /\ s \in last'.pulled
                    => /\ last'.outcome = "done"
                       /\ Len(new) = 3
                       /\ new[1].tag = old[2].tag /\ new[1].status = "current"
                       /\ new[2].tag = old[1].tag /\ new[2].status = "rolled-back"
                       /\ new[3].tag = old[2].tag /\ new[3].status # "current"
                       /\ manifest'.services[s].current_tag = old[2].tag
                       /\ file' = <<manifest'>>

C6_RollbackToPrevious == [][C6_Step]_vars

\* C6 witness: such a rollback has been recorded
C6_RolledBackToPrevious ==
    /\ last.cmd = "rollback" /\ last.service = "outpost" /\ last.tag = NoTag
    /\ last.pulled = {"outpost"} /\ last.copies = 1
    /\ Len(history_of(backups[1], "outpost")) = 2
    /\ backups[1].history["outpost"][2].status = "previous"
    /\ "outpost" \notin DOMAIN backups[1].custom_overrides
    /\ manifest.history["outpost"][2].status = "rolled-back"
    /\ manifest.history["outpost"][1].tag = backups[1].history["outpost"][2].tag

\* the manifest after pull(outpost, 1.42) and pull(outpost, 1.43) on no manifest
C7_AfterTwoPulls ==
    update_service_version(
        update_service_version(create_default_manifest, "outpost", "1.42", FALSE),
        "outpost", "1.43", FALSE)

C7_Step(n) ==
    /\ file = <<C7_AfterTwoPulls>>
    /\ last'.cmd = "rollback" /\ last'.service = "outpost" /\ last'.tag = NoTag
    => /\ last'.outcome # "no-plan"
       /\ "outpost" \in last'.pulled
            => /\ get_current_tag(manifest', "outpost") = "1.42"
               /\ Len(history_of(manifest', "outpost")) = n
               /\ file' = <<manifest'>>

\* C7: from no manifest, pull(outpost, 1.42), pull(outpost, 1.43) and a
\* rollback of outpost whose pull succeeds leave outpost with the effective tag
\* 1.42 and a history of three entries: the rollback records a new entry, it
\* does not remove one.
C7_ScenarioLeavesThreeEntries == [][C7_Step(3)]_vars

\* C7 as stated: the same scenario leaves a history of length 2
C7_ScenarioLeavesTwoEntries == [][C7_Step(2)]_vars

\* C7 witness: the rollback of the scenario has been recorded
C7_ScenarioRolledBack ==
    /\ last.cmd = "rollback" /\ last.service = "outpost" /\ last.tag = NoTag
    /\ last.pulled = {"outpost"}
    /\ backups = <<C7_AfterTwoPulls>>
    /\ Len(history_of(manifest, "outpost")) = 3
    /\ get_current_tag(manifest, "outpost") = "1.42"

\* C8: a pull or a set whose image pull fails leaves the manifest in memory as
\* loaded and leaves the manifest file, the backup directory and the
\* environment file untouched.
C8_Step ==
    last'.cmd \in {"pull", "set"} /\ last'.outcome = "pull-failed"
    => /\ manifest' = loaded
       /\ file' = file /\ backups' = backups /\ env' = env
       /\ last'.copies = 0

C8_FailedPullChangesNothing == [][C8_Step]_vars

\* C8 witness: a pull failed on a manifest that had been saved and backed up
C8_PullFailedOnSavedManifest ==
    /\ last.cmd = "pull" /\ last.outcome = "pull-failed"
    /\ file # <<>> /\ backups # <<>> /\ env # <<>>
    /\ get_current_tag(manifest, last.service) # last.tag

\* C9: a rollback tries to pull a service only when a target exists for it and
\* differs from its effective tag; a service it skipped or failed to pull keeps
\* its record, history and override; the manifest is saved and the environment
\* file regenerated exactly when at least one service was rolled back, and the
\* command then reports success.
C9_Untouched(m0, m1, s) ==
    /\ (s \in DOMAIN m1.services) = (s \in DOMAIN m0.services)
    /\ s \in DOMAIN m0.services => m1.services[s] = m0.services[s]
    /\ history_of(m1, s) = history_of(m0, s)
    /\ (s \in DOMAIN m1.custom_overrides) = (s \in DOMAIN m0.custom_overrides)
    /\ s \in DOMAIN m0.custom_overrides => m1.custom_overrides[s] = m0.custom_overrides[s]

C9_Step ==
    last'.cmd = "rollback"
    => /\ \A s \in last'.tried :
            /\ rollback_target(loaded, s, last'.tag) # NoTag
            /\ rollback_target(loaded, s, last'.tag) # C3_Effective(loaded, s)
       /\ last'.pulled \subseteq last'.tried
       /\ \A s \in ServiceSet \ last'.pulled : C9_Untouched(loaded, manifest', s)
       /\ \A s \in last'.pulled :
            manifest'.services[s].current_tag = rollback_target(loaded, s, last'.tag)
       /\ IF last'.pulled # {}
          THEN /\ file' = <<manifest'>> /\ file' # file
               /\ env' # <<>>
               /\ \A s \in ServiceSet : env_tag(env'[1], s) = C3_Effective(manifest', s)
               /\ last'.outcome = "done"
          ELSE /\ file' = file /\ env' = env /\ backups' = backups
               /\ last'.outcome # "done"

C9_RollbackOfSeveralServices == [][C9_Step]_vars

\* C9 witness: a rollback of all services skipped one, failed one and rolled
\* one back
C9_MixedRollback ==
    /\ last.cmd = "rollback" /\ last.service = "all" /\ last.outcome = "done"
    /\ last.pulled # {}
    /\ last.tried \ last.pulled # {}
    /\ ServiceSet \ last.tried # {}

\* C10: when some pull of update-safe failed and the operator declines, no
\* record, history or persisted manifest changes; when the run proceeds,
\* exactly the services whose pull succeeded get a new recording and the
\* others keep their record and history.
C10_Step ==
    last'.cmd = "update-safe"
    => IF last'.outcome = "cancelled"
       THEN /\ last'.pulled # ServiceSet
            /\ manifest' = loaded
            /\ file' = file /\ env' = env
       ELSE \A s \in ServiceSet :
                IF s \in last'.pulled
                THEN /\ clock(manifest', s) = clock(loaded, s) + 1
                     /\ manifest'.services[s].deployed_at = clock(manifest', s)
                     /\ manifest'.history[s][1].status = "current"
                     /\ load_manifest(file') = manifest'
                ELSE /\ (s \in DOMAIN manifest'.services) = (s \in DOMAIN loaded.services)
                     /\ s \in DOMAIN loaded.services
                            => manifest'.services[s] = loaded.services[s]
                     /\ history_of(manifest', s) = history_of(loaded, s)
                     /\ load_manifest(file') = manifest'

C10_UpdateSafePartialPulls == [][C10_Step]_vars

\* C10 witness: update-safe proceeded although a pull had failed
C10_ProceededAfterFailedPull ==
    /\ last.cmd = "update-safe" /\ last.outcome \in {"done", "start-failed"}
    /\ last.pulled # {} /\ last.pulled # ServiceSet
    /\ file = <<manifest>>

\* C11: in update-safe a failure of the stop step or of the start step aborts
\* the workflow, so that nothing runs after the failed step (no start after a
\* failed stop), and the process ends with a non-zero exit code.
C11_StopOrStartFailureAborts ==
    last.cmd = "update-safe"
        => \A i \in 1..Len(last.made) :
                ~last.made[i].ok => /\ Len(last.made) = i
                                    /\ last.code # 0

\* C12: a command that fails because a pull or the registry login fails ends
\* with exit code 1, and a Version Manager command that succeeds ends with
\* exit code 0.
C12_ExitCodeReportsFailure ==
    /\ last.outcome \in {"pull-failed", "login-failed"} => last.code = 1
    /\ last.outcome = "done" /\ last.cmd # "migrate" => last.code = 0

\* C13: when the operator declines a confirmation of rollback, of update-safe
\* or of the wizard, the process exits with code 0 and the persisted manifest
\* is as it was.
C13_Step ==
    last'.outcome = "cancelled" => last'.code = 0 /\ file' = file

C13_DeclineExitsZero == [][C13_Step]_vars

\* C14: resolve-tags never changes the length of a history or the status of an
\* entry; for each ECR-hosted service whose effective tag is 'latest' and for
\* which the resolver returns T it sets the current tag of the record to T and
\* rewrites nothing in the history but the tag of the 'current' entry; every
\* other service is untouched; when the registry is unreachable it changes
\* nothing.
C14_Resolved(s) ==
    /\ s \in ECR_SERVICES
    /\ C3_Effective(loaded, s) = "latest"
    /\ last'.outcome # "no-access"
    /\ s \in DOMAIN last'.registry
    /\ last'.registry[s] # NoTag

C14_Step ==
    last'.cmd = "resolve-tags"
    => /\ \A s \in ServiceSet :
            LET old == history_of(loaded, s)
                new == history_of(manifest', s)
            IN  /\ Len(new) = Len(old)
                /\ \A i \in 1..Len(old) : new[i].status = old[i].status
                /\ IF C14_Resolved(s)
                   THEN /\ s \in DOMAIN manifest'.services
                        /\ manifest'.services[s].current_tag = last'.registry[s]
                        /\ \A i \in 1..Len(old) :
                            \/ new[i] = old[i]
                            \/ /\ old[i].status = "current"
                               /\ new[i] = [old[i] EXCEPT !.tag = last'.registry[s]]
                   ELSE C9_Untouched(loaded, manifest', s)
       /\ last'.outcome = "no-access"
            => manifest' = loaded /\ file' = file /\ env' = env /\ backups' = backups

C14_ResolveTagsRewritesInPlace == [][C14_Step]_vars

\* C15: generate-env writes one registry variable and, for every service of
\* SERVICES, exactly one IMAGE variable and exactly one TAG variable whose
\* value is the effective tag of the service (the tag of the override if there
\* is one, else the current tag of the record, else 'latest'); it changes
\* neither the manifest in memory nor the manifest file nor the backups.
C15_Count(e, key) == Cardinality({i \in 1..Len(e) : e[i].key = key})

C15_Step ==
    last'.cmd = "generate-env"
    => /\ env' # <<>>
       /\ Len(env'[1]) = 2 * Len(SERVICES) + 1
       /\ C15_Count(env'[1], "DK_ECR_REGISTRY") = 1
       /\ \A s \in ServiceSet :
            /\ C15_Count(env'[1], "DK_" \o upper(s) \o "_IMAGE") = 1
            /\ C15_Count(env'[1], "DK_" \o upper(s) \o "_TAG") = 1
            /\ \A i \in 1..Len(env'[1]) :
                env'[1][i].key = "DK_" \o upper(s) \o "_TAG"
                    => env'[1][i].value = C3_Effective(loaded, s)
       /\ manifest' = loaded /\ file' = file /\ backups' = backups

C15_GenerateEnvWritesEffectiveTags == [][C15_Step]_vars

\* C15 witness: generate-env ran on a manifest with an override whose tag
\* differs from the record and with a service that has no record
C15_GeneratedWithOverride ==
    /\ last.cmd = "generate-env"
    /\ \E s \in DOMAIN manifest.custom_overrides :
        manifest.services[s].current_tag # manifest.custom_overrides[s].tag
    /\ ServiceSet \ DOMAIN manifest.services # {}
    /\ env # <<>>

\* C16: loading never fails: the VersionManager is constructed whatever the
\* manifest file holds, with the default manifest when the file is absent,
\* empty or unparsable, and loading creates or changes no file.
C16_Step ==
    last'.cmd = "show"
    => /\ last'.outcome = "done"
       /\ file \in {<<>>, <<EmptyDocument>>, <<Unparsable>>}
            => manifest' = create_default_manifest
       /\ file' = file /\ backups' = backups /\ env' = env

C16_LoadNeverFails == [][C16_Step]_vars

\* C17: every overwrite of an existing manifest file, by a Version Manager
\* command or by the wizard, is preceded by a backup copy of the content the
\* file had just before: the process that overwrites the file writes a backup,
\* and when it writes one copy only, that copy is the file as the process
\* found it.
C17_Step ==
    file # <<>> /\ file' # file
    => /\ last'.copies >= 1
       /\ last'.copies = 1 => backups' = file

C17_BackupBeforeOverwrite == [][C17_Step]_vars

\* the outputs that carry a marker of an expired authorization, whatever the case
C19_Marked ==
    { <<"pull", "access", "denied:", "authorization", "token", "has", "expired">>,
      <<"Error:", "Authorization", "Token", "has", "expired">>,
      <<"Reauthenticate", "and", "try", "again">> }

C19_PublicEcr == { <<"public.ecr.aws", "n5k3t9x2", "outpost:latest">> }

C19_Retryable(image, r) ==
    ~r.ok /\ r.output \in C19_Marked /\ image \in C19_PublicEcr

\* C18: docker_pull_with_retry runs at most 2 docker pulls; every pull before
\* the last one it runs has failed; it returns the result of the last pull it
\* runs, success or failure, with the output of that pull unmodified; after a
\* failure that is not retryable it runs no further pull.
C18_AtMostTwoAttempts ==
    last.cmd = "docker_pull_with_retry"
    => LET r == last.result IN
       /\ r.attempts \in 1..2
       /\ \A i \in 1..(r.attempts - 1) : ~last.outs[i].ok
       /\ r.success = last.outs[r.attempts].ok
       /\ r.output = last.outs[r.attempts].output
       /\ ~C19_Retryable(last.image, last.outs[1]) => r.attempts = 1

\* C18 witness: the second pull failed with a retryable failure and a third
\* pull would have succeeded
C18_SecondPullFailed ==
    /\ last.cmd = "docker_pull_with_retry"
    /\ last.result.attempts = 2 /\ ~last.result.success
    /\ C19_Retryable(last.image, last.outs[2])
    /\ last.outs[2].output # lower(last.outs[2].output)
    /\ last.outs[3].ok

\* C19: a second pull is run exactly when the first one failed with an output
\* that carries a marker of an expired authorization, in any case, and the
\* image is one of the public ECR registry; one logout precedes each retry and
\* there is no logout without a retry.  So an expired token followed by a
\* successful pull gives success with one logout, and an unrelated failure
\* gives failure with one pull and no logout.
C19_RetryIffExpiredOnPublicEcr ==
    last.cmd = "docker_pull_with_retry"
    => LET r == last.result IN
       /\ r.attempts = 2 <=> C19_Retryable(last.image, last.outs[1])
       /\ r.logouts = r.attempts - 1
       /\ C19_Retryable(last.image, last.outs[1]) /\ last.outs[2].ok
            => r.success /\ r.logouts = 1
       /\ last.outs[1] = [ok |-> FALSE, output |-> <<"manifest", "unknown">>]
            => ~r.success /\ r.attempts = 1 /\ r.logouts = 0

\* C19 witness: a token expired, reported in capitals, and the retry succeeded
C19_RetrySucceeded ==
    /\ last.cmd = "docker_pull_with_retry"
    /\ last.outs[1].output = <<"Error:", "Authorization", "Token", "has", "expired">>
    /\ ~last.outs[1].ok
    /\ last.result.success /\ last.result.attempts = 2 /\ last.result.logouts = 1

\* C20: for a service that is not ECR-hosted both resolvers return None and
\* query no registry.
C20_NoQueryOutsideEcr ==
    last.cmd = "resolve" /\ last.service \notin ECR_SERVICES
    => /\ last.vm.tag = NoTag /\ last.vm.queries = 0
       /\ last.wizard.tag = NoTag /\ last.wizard.queries = 0

\* the part of C20 that is about the resolver of the migration
C20_WizardSkipsOutsideEcr ==
    last.cmd = "resolve" /\ last.service \notin ECR_SERVICES
    => last.wizard.tag = NoTag /\ last.wizard.queries = 0

\* the order of the numeric tags, lowest first, written out by hand
C21_Order == <<"1.9", "1.10", "1.42", "1.43", "2.0">>

C21_Rank(t) == CHOOSE i \in 1..Len(C21_Order) : C21_Order[i] = t

\* the tags of a record that are neither 'latest' nor digest-like
C21_Kept(tags) ==
    {tags[i] : i \in 1..Len(tags)} \ {"latest", "sha-1f3a", "sha256abc"}

C21_HighestOfSomeRecord(r) ==
    r.tag # NoTag
    => \E i \in 1..Len(last.answer.imageDetails) :
          LET kept == C21_Kept(last.answer.imageDetails[i].imageTags) IN
          /\ r.tag \in kept
          /\ kept \subseteq {C21_Order[j] : j \in 1..Len(C21_Order)}
          /\ \A u \in kept : C21_Rank(u) <= C21_Rank(r.tag)

\* the registry holds one record, whose digest is the one asked for
C21_OnlyRecord(tags) ==
    /\ last.digest = <<"sha256", "1f3a">>
    /\ last.answer = [ok |-> TRUE, json |-> TRUE,
                      imageDetails |-> <<[imageDigest |-> <<"sha256", "1f3a">>,
                                          imageTags |-> tags]>>]

C21_Returns(tags, t) ==
    C21_OnlyRecord(tags)
    => /\ last.vm.tag = t
       /\ last.service \in ECR_SERVICES /\ last.registry[1] = "public.ecr.aws"
            => last.wizard.tag = t

\* C21: a tag that a resolver returns is a tag of a record of the answer that
\* is neither 'latest' nor digest-like, and no other such tag of that record
\* is higher when the segments are compared as integers; from the record
\* tagged 1.9, 1.10, 2.0, latest, sha256abc it returns 2.0, and from the
\* record tagged 1.9, 1.10 it returns 1.10.
C21_HighestSemanticTag ==
    last.cmd = "resolve"
    => /\ C21_HighestOfSomeRecord(last.vm)
       /\ C21_HighestOfSomeRecord(last.wizard)
       /\ C21_Returns(<<"1.9", "1.10", "2.0", "latest", "sha256abc">>, "2.0")
       /\ C21_Returns(<<"1.9", "1.10">>, "1.10")

\* C21 witness: both resolvers returned 2.0 from the record tagged 1.9, 1.10,
\* 2.0, latest, sha256abc
C21_ReturnedTwoZero ==
    /\ last.cmd = "resolve"
    /\ C21_OnlyRecord(<<"1.9", "1.10", "2.0", "latest", "sha256abc">>)
    /\ last.vm.tag = "2.0" /\ last.wizard.tag = "2.0"

\* C22: the manifest the migration writes has, for every service of SERVICES,
\* detected or not, one record and a history of one entry, of status
\* 'current', whose tag is the record's current_tag: the tag detected, or
\* 'latest' for a service that was not detected; custom_overrides is empty.
C22_Step ==
    last'.cmd = "migrate" /\ last'.outcome = "done"
    => /\ file' # <<>>
       /\ manifest' = file'[1]
       /\ DOMAIN file'[1].services = ServiceSet
       /\ DOMAIN file'[1].history = ServiceSet
       /\ file'[1].custom_overrides = <<>>
       /\ \A s \in ServiceSet :
            LET h == file'[1].history[s] IN
            /\ Len(h) = 1
            /\ h[1].status = "current"
            /\ h[1].tag = file'[1].services[s].current_tag
            /\ h[1].tag = IF s \in DOMAIN last'.images THEN last'.images[s]
                          ELSE "latest"

C22_MigrationBuildsFromScratch == [][C22_Step]_vars

\* C22 witness: the migration ran over an older manifest while only outpost
\* was running
C22_MigratedOverOlder ==
    /\ last.cmd = "migrate" /\ last.outcome = "done"
    /\ DOMAIN last.images = {"outpost"}
    /\ file[1].services["outpost"].deployed_at > 1
    /\ file[1].services["vault"].current_tag = "latest"

C23_Overwrite(responses) ==
    \E i \in 1..Len(last'.asked) :
        last'.asked[i].prompt = "overwrite" /\ last'.asked[i].response \in responses

\* C23: a migration that finds a manifest file changes that file or the env
\* file only if the operator answered yes to the overwrite prompt; after an
\* answer of no, or no answer, to that prompt both files are as before.
C23_Step ==
    last'.cmd = "migrate" /\ file # <<>>
    => /\ file' # file \/ env' # env => C23_Overwrite({"yes", "Y"})
       /\ C23_Overwrite({"no", ""}) => file' = file /\ env' = env
       /\ last'.outcome = "done" => C23_Overwrite({"yes", "Y"})

C23_OverwriteOnlyAfterConfirm == [][C23_Step]_vars

\* C23 witness: the wizard found a manifest, the operator gave no answer to the
\* overwrite prompt and the wizard stopped
C23_OverwriteUnanswered ==
    /\ last.cmd = "migrate" /\ last.outcome = "cancelled"
    /\ file # <<>>
    /\ Len(last.asked) = 2
    /\ last.asked[2] = [prompt |-> "overwrite", response |-> ""]

\* the records of the answer whose digest is the digest asked for
C24_Matched ==
    {i \in 1..Len(last.answer.imageDetails) :
        last.digest # <<>> /\ last.answer.imageDetails[i].imageDigest = last.digest}

C24_Parsed == last.answer.ok /\ last.answer.json

\* the highest of a set of numeric tags, NoTag for the empty set
C24_Highest(kept) ==
    IF kept = {} THEN NoTag
    ELSE CHOOSE t \in kept : \A u \in kept : C21_Rank(u) <= C21_Rank(t)

\* C24: when one record of the answer has the digest asked for, the Version
\* Manager's resolver returns the highest semantic tag of that record, or
\* None when that record has no semantic tag, whatever the other records are;
\* when the query fails or its output cannot be parsed it returns None.
C24_MatchedRecordDecides ==
    last.cmd = "resolve"
    => /\ ~C24_Parsed => last.vm.tag = NoTag /\ ~last.vm.raised
       /\ C24_Parsed
            => \A i \in C24_Matched :
                 LET kept == C21_Kept(last.answer.imageDetails[i].imageTags) IN
                 C24_Matched = {i} /\ kept \subseteq {C21_Order[j] : j \in 1..Len(C21_Order)}
                 => last.vm.tag = C24_Highest(kept)

\* the part of C24 about a matched record that has a semantic tag, and about
\* the query that fails
C24_MatchedWithSemanticTags ==
    last.cmd = "resolve"
    => /\ ~C24_Parsed => last.vm.tag = NoTag /\ ~last.vm.raised
       /\ C24_Parsed
            => \A i \in C24_Matched :
                 LET kept == C21_Kept(last.answer.imageDetails[i].imageTags) IN
                 /\ C24_Matched = {i} /\ kept # {}
                 /\ kept \subseteq {C21_Order[j] : j \in 1..Len(C21_Order)}
                 => last.vm.tag = C24_Highest(kept)

\* C25: whatever the tags of the records are, also tags such as 1.2 and 1.x
\* whose segments mix a number and a word at the same position, no exception
\* leaves a resolver: it returns a tag or None.
C25_ResolutionNeverRaises ==
    last.cmd = "resolve" => ~last.vm.raised /\ ~last.wizard.raised

\* C26: when pull, set, rollback, pull-latest, update-safe or resolve-tags
\* has completed and has changed the manifest file, the env file gives every
\* service the effective tag it has in the manifest file, if there is an env
\* file; update-safe has such an env file whenever it has gone on to restart
\* the services.
C26_EnvReflects(e, f) ==
    e # <<>> => \A s \in ServiceSet : env_tag(e[1], s) = C3_Effective(f[1], s)

C26_Step ==
    /\ last'.cmd \in {"pull", "set", "rollback", "pull-latest", "update-safe",
                      "resolve-tags"}
         /\ last'.outcome # "crash" /\ file' # file
       => C26_EnvReflects(env', file')
    /\ last'.cmd = "update-safe" /\ last'.made # <<>>
       => C26_EnvReflects(env', file')

C26_EnvFollowsManifest == [][C26_Step]_vars

\* the part of C26 about pull, set, rollback and resolve-tags
C26_StepOfOthers ==
    last'.cmd \in {"pull", "set", "rollback", "resolve-tags"}
        /\ last'.outcome # "crash" /\ file' # file
    => C26_EnvReflects(env', file')

C26_EnvFollowsManifestOfOthers == [][C26_StepOfOthers]_vars

C27_EffectiveIsTarget(s) ==
    /\ C3_Effective(manifest', s) = rollback_target(loaded, s, last'.tag)
    /\ C3_Effective(file'[1], s) = rollback_target(loaded, s, last'.tag)
    /\ env_tag(env'[1], s) = rollback_target(loaded, s, last'.tag)

\* C27: after a rollback that succeeded, every service it rolled back has its
\* target as effective tag, in memory, in the manifest file and in the env
\* file, also when the service had an override.
C27_Step ==
    last'.cmd = "rollback" /\ last'.outcome = "done"
    => \A s \in last'.pulled : C27_EffectiveIsTarget(s)

C27_RollbackSetsEffectiveTag == [][C27_Step]_vars

\* the part of C27 about the services without an override
C27_StepWithoutOverride ==
    last'.cmd = "rollback" /\ last'.outcome = "done"
    => \A s \in last'.pulled \ DOMAIN loaded.custom_overrides :
          C27_EffectiveIsTarget(s)

C27_RollbackWithoutOverride == [][C27_StepWithoutOverride]_vars

C28_Agree(m) ==
    \A s \in DOMAIN m.services :
        LET h == history_of(m, s)
            current == {i \in 1..Len(h) : h[i].status = "current"}
        IN  /\ current # {}
            /\ \A i \in current : h[i].tag = m.services[s].current_tag

\* C28: in every reachable state the current_tag of every service that has a
\* record in the manifest file is the tag of the entry of its history whose
\* status is 'current'.
C28_CurrentTagIsCurrentEntry ==
    file # <<>> => C28_Agree(file[1])

\* the part of C28 about the manifests in which no service has an override
C28_WithoutOverrides ==
    file # <<>> /\ DOMAIN file[1].custom_overrides = {} => C28_Agree(file[1])

\* C29: on every image and every sequence of pull results the
\* docker_pull_with_retry of version-manager.py and that of
\* docker-pull-retry.py run the same number of pulls and of logouts and
\* report the same success or failure.
C29_PullsAreEquivalent ==
    last.cmd = "docker_pull_with_retry"
    => /\ last.script.attempts = last.result.attempts
       /\ last.script.logouts = last.result.logouts
       /\ last.script.success = last.result.success

\* C29 witness: both retried after "Reauthenticate and try again" and failed
\* on the second pull
C29_BothRetried ==
    /\ last.cmd = "docker_pull_with_retry"
    /\ last.outs[1].output = <<"Reauthenticate", "and", "try", "again">>
    /\ last.script.attempts = 2 /\ last.result.attempts = 2
    /\ last.script.logouts = 1 /\ last.result.logouts = 1
    /\ ~last.script.success /\ ~last.result.success

\* C30: resolve-tags on the default manifest, there being no manifest file,
\* never aborts: it resolves nothing and changes nothing, or it records what
\* was resolved and saves.
C30_Step ==
    file = <<>> /\ last'.cmd = "resolve-tags"
    => /\ last'.outcome # "crash"
       /\ \/ manifest' = create_default_manifest /\ file' = file
          \/ /\ file' = <<manifest'>>
             /\ \E s \in DOMAIN last'.registry :
                   /\ last'.registry[s] # NoTag
                   /\ get_current_tag(manifest', s) = last'.registry[s]

C30_ResolveTagsOnDefaultManifest == [][C30_Step]_vars

====
